---- MODULE Spec2Model ----
(***************************************************************************)
(* getDashboardBody of nodejs/awsx/cloudwatch/dashboard.ts: validation of  *)
(* the top-level widget list, normalisation into one ColumnWidget of       *)
(* RowWidgets, and the flattening of that tree into positioned records.    *)
(* RowWidget / ColumnWidget (./widgets_flow) and the leaf widgets          *)
(* (./widget) are imported by dashboard.ts; their layout is modelled from  *)
(* sections 4.1-4.3 of the specification.                                  *)
(***************************************************************************)
EXTENDS Integers, Sequences, FiniteSets

VARIABLES
    args,             \* DashboardArgs: hasWidgets, widgets, start, end, periodOverride
    pc,               \* position inside getDashboardBody
    widgets,          \* const widgets = args.widgets || []
    firstWidgetIsRow, \* const firstWidgetIsRow
    i,                \* loop index of the homogeneity loop (0-based, as in the code)
    rows,             \* const rows
    column,           \* const column: <<>> before construction, <<tree>> after
    widgetJsons,      \* const widgetJsons: WidgetJson[]
    body,             \* the returned value: <<>> before return, <<record>> after
    err,              \* the Error thrown: "none", "count" or "hetero"
    constructed,      \* how many RowWidget / ColumnWidget objects the function built
    emitCalls         \* how many times addWidgetJson was invoked on the root

vars == <<args, pc, widgets, firstWidgetIsRow, i, rows, column, widgetJsons,
          body, err, constructed, emitCalls>>

-----------------------------------------------------------------------------
(* Bounds and program constants *)

\* longest top-level list enumerated exhaustively
MaxLen == 3

\* longest arbitrary prefix of the long (padded) lists
MaxPrefix == 1

\* "Must supply between 0 and 100 widgets."
MaxWidgets == 100

\* the dashboard grid is 24 columns wide
GridColumns == 24

Max(a, b) == IF a >= b THEN a ELSE b
Min(a, b) == IF a <= b THEN a ELSE b

-----------------------------------------------------------------------------
(* Widgets *)

LeafWidget(name, w, h) ==
    [kind |-> "Leaf", name |-> name, w |-> w, h |-> h, kids |-> <<>>]

RowWidget(kids) ==
    [kind |-> "Row", name |-> "", w |-> 0, h |-> 0, kids |-> kids]

ColumnWidget(kids) ==
    [kind |-> "Column", name |-> "", w |-> 0, h |-> 0, kids |-> kids]

\* widget instanceof RowWidget
IsRowWidget(widget) == widget.kind = "Row"

\* Variant: wraps already when the line would become exactly 24 wide.
WrapNeeded_AtLeast(cursorX, childWidth) == cursorX + childWidth >= GridColumns

\* if cursorX + child.width > 24, wrap
WrapNeeded(cursorX, childWidth) == cursorX + childWidth > GridColumns

RECURSIVE Width(_), Height(_), RowFoldFrom(_, _, _, _), ColumnFoldFrom(_, _, _, _)

\* RowWidget's cursors before its first child.
RowStart ==
    [cursorX |-> 0, cursorY |-> 0, lineHeight |-> 0, maxX |-> 0, pos |-> <<>>]

\* RowWidget places one child: wrap if the line would pass column 24, give
\* the child its relative position, advance the cursors.
RowStep(p, child) ==
    LET cw   == Width(child)
        ch   == Height(child)
        wrap == WrapNeeded(p.cursorX, cw)
        x0   == IF wrap THEN 0 ELSE p.cursorX
        y0   == IF wrap THEN p.cursorY + p.lineHeight ELSE p.cursorY
        lh0  == IF wrap THEN 0 ELSE p.lineHeight
    IN  [cursorX    |-> x0 + cw,
         cursorY    |-> y0,
         lineHeight |-> Max(lh0, ch),
         maxX       |-> Max(p.maxX, x0 + cw),
         pos        |-> Append(p.pos, [relativeX |-> x0, relativeY |-> y0])]

\* The children lo..hi placed in order from the cursors p. The range is
\* halved, and the first half's cursors are computed (the test on q) before
\* the second half starts, so that the evaluation stays shallow on long lists.
RowFoldFrom(kids, p, lo, hi) ==
    IF lo > hi THEN p
    ELSE IF lo = hi THEN RowStep(p, kids[lo])
    ELSE LET mid == (lo + hi) \div 2
             q   == RowFoldFrom(kids, p, lo, mid)
         IN  IF Len(q.pos) >= 0 THEN RowFoldFrom(kids, q, mid + 1, hi) ELSE q

RowFold(kids) == RowFoldFrom(kids, RowStart, 1, Len(kids))

\* ColumnWidget's cursor before its first child.
ColumnStart == [cursorY |-> 0, maxW |-> 0, pos |-> <<>>]

\* ColumnWidget places one child under the previous ones.
ColumnStep(p, child) ==
    [cursorY |-> p.cursorY + Height(child),
     maxW    |-> Max(p.maxW, Width(child)),
     pos     |-> Append(p.pos, [relativeX |-> 0, relativeY |-> p.cursorY])]

ColumnFoldFrom(kids, p, lo, hi) ==
    IF lo > hi THEN p
    ELSE IF lo = hi THEN ColumnStep(p, kids[lo])
    ELSE LET mid == (lo + hi) \div 2
             q   == ColumnFoldFrom(kids, p, lo, mid)
         IN  IF Len(q.pos) >= 0 THEN ColumnFoldFrom(kids, q, mid + 1, hi) ELSE q

ColumnFold(kids) == ColumnFoldFrom(kids, ColumnStart, 1, Len(kids))

Width(widget) ==
    IF widget.kind = "Leaf" THEN widget.w
    ELSE IF widget.kind = "Row"
         THEN Min(GridColumns, RowFold(widget.kids).maxX)
         ELSE ColumnFold(widget.kids).maxW

Height(widget) ==
    IF widget.kind = "Leaf" THEN widget.h
    ELSE IF widget.kind = "Row"
         THEN LET f == RowFold(widget.kids)
              IN  f.cursorY + f.lineHeight
         ELSE ColumnFold(widget.kids).cursorY

\* The relative positions a container gives its children.
RelativePositions(widget) ==
    IF widget.kind = "Row"
    THEN RowFold(widget.kids).pos
    ELSE ColumnFold(widget.kids).pos

\* The record a leaf appends; name stands for its type and properties.
WidgetJson(widget, xOffset, yOffset) ==
    [x |-> xOffset, y |-> yOffset, width |-> widget.w, height |-> widget.h,
     leaf |-> widget.name]

RECURSIVE addWidgetJson(_, _, _, _), addKidsJson(_, _, _, _, _, _, _)

\* widget.addWidgetJson(widgetJsons, xOffset, yOffset, region): the output
\* sequence after the widget appended its records.
addWidgetJson(widget, out, xOffset, yOffset) ==
    IF widget.kind = "Leaf"
    THEN Append(out, WidgetJson(widget, xOffset, yOffset))
    ELSE addKidsJson(widget.kids, RelativePositions(widget), out, xOffset, yOffset,
                     1, Len(widget.kids))

\* The children lo..hi of a container emit in order, each at the container's
\* offset plus its relative position.
addKidsJson(kids, pos, out, xOffset, yOffset, lo, hi) ==
    IF lo > hi THEN out
    ELSE IF lo = hi
         THEN addWidgetJson(kids[lo], out,
                            xOffset + pos[lo].relativeX, yOffset + pos[lo].relativeY)
    ELSE LET mid == (lo + hi) \div 2
             q   == addKidsJson(kids, pos, out, xOffset, yOffset, lo, mid)
         IN  IF Len(q) >= 0
             THEN addKidsJson(kids, pos, q, xOffset, yOffset, mid + 1, hi)
             ELSE q

-----------------------------------------------------------------------------
(* The inputs of getDashboardBody *)

LeafA == LeafWidget("A", 10, 4)
LeafB == LeafWidget("B", 12, 6)
LeafC == LeafWidget("C", 6, 3)
LeafD == LeafWidget("D", 24, 2)

\* The widgets a caller may put in the top-level list: leaves, an empty row,
\* a row that wraps, a row as wide as the grid and one half as wide that nest
\* a container at a non-zero column cursor, a column over a leaf and a row.
WidgetUniverse ==
    { LeafA, LeafB, LeafC, LeafD,
      RowWidget(<<>>),
      RowWidget(<<LeafA, LeafA, LeafA>>),
      RowWidget(<<LeafC, RowWidget(<<LeafC, LeafB>>)>>),
      RowWidget(<<LeafC, ColumnWidget(<<LeafC, LeafC>>)>>),
      ColumnWidget(<<LeafA, RowWidget(<<LeafC, LeafC>>)>>) }

SeqsUpTo(S, n) == UNION { [1..k -> S] : k \in 0..n }

ShortLists == SeqsUpTo(WidgetUniverse, MaxLen)

\* Lists around the count bound: an arbitrary short prefix, then one widget
\* repeated up to the length wanted.
PadWidgets == { LeafC, RowWidget(<<LeafA, LeafA, LeafA>>) }

LongLengths == { MaxWidgets, MaxWidgets + 1 }

LongLists ==
    { [k \in 1..n |-> IF k <= Len(pre) THEN pre[k] ELSE pad] :
        pre \in SeqsUpTo(PadWidgets, MaxPrefix), pad \in PadWidgets, n \in LongLengths }

\* start, end and periodOverride as the caller supplies them.
ScalarArgs ==
    { [start |-> "undefined", end |-> "undefined", periodOverride |-> "undefined"],
      [start |-> "-PT8H", end |-> "undefined", periodOverride |-> "auto"],
      [start |-> "2018-12-17T06:00:00.000Z", end |-> "2018-12-18T06:00:00.000Z",
       periodOverride |-> "inherit"] }

DashboardArgs(hasWidgets, ws, sc) ==
    [hasWidgets |-> hasWidgets, widgets |-> ws, start |-> sc.start, end |-> sc.end,
     periodOverride |-> sc.periodOverride]

Inputs ==
    { DashboardArgs(FALSE, <<>>, sc) : sc \in ScalarArgs }
    \cup { DashboardArgs(TRUE, ws, sc) : ws \in ShortLists, sc \in ScalarArgs }
    \cup { DashboardArgs(TRUE, ws, CHOOSE sc \in ScalarArgs : sc.periodOverride = "auto") :
             ws \in LongLists }

-----------------------------------------------------------------------------
(* getDashboardBody, statement by statement *)

Init ==
    /\ args \in Inputs
    /\ pc = "start"
    /\ widgets = <<>>
    /\ firstWidgetIsRow = FALSE
    /\ i = 0
    /\ rows = <<>>
    /\ column = <<>>
    /\ widgetJsons = <<>>
    /\ body = <<>>
    /\ err = "none"
    /\ constructed = 0
    /\ emitCalls = 0

\* const widgets = args.widgets || [];
ArgsWidgets(a) == IF a.hasWidgets THEN a.widgets ELSE <<>>

ReadWidgets ==
    /\ pc = "start"
    /\ widgets' = ArgsWidgets(args)
    /\ pc' = "checkCount"
    /\ UNCHANGED <<args, firstWidgetIsRow, i, rows, column, widgetJsons, body, err,
                   constructed, emitCalls>>

\* Variant: the upper bound off by one, 100 widgets refused.
CountOutOfBounds_OffByOne(n) == n < 0 \/ n >= MaxWidgets

\* widgets.length < 0 || widgets.length > 100
CountOutOfBounds(n) == n < 0 \/ n > MaxWidgets

\* throw new Error("Must supply between 0 and 100 widgets.");
CheckCount ==
    /\ pc = "checkCount"
    /\ IF CountOutOfBounds(Len(widgets))
       THEN /\ err' = "count"
            /\ pc' = "threw"
       ELSE /\ err' = err
            /\ pc' = "classify"
    /\ UNCHANGED <<args, widgets, firstWidgetIsRow, i, rows, column, widgetJsons, body,
                   constructed, emitCalls>>

\* widgets[0] instanceof RowWidget: false for the undefined widgets[0] of an
\* empty list.
FirstWidgetIsRow(ws) == Len(ws) > 0 /\ IsRowWidget(ws[1])

\* const firstWidgetIsRow = ...; for (let i = 1; ...
Classify ==
    /\ pc = "classify"
    /\ firstWidgetIsRow' = FirstWidgetIsRow(widgets)
    /\ i' = 1
    /\ pc' = "loop"
    /\ UNCHANGED <<args, widgets, rows, column, widgetJsons, body, err, constructed,
                   emitCalls>>

\* Variants: only a non-row after a first row, or only a row after a first
\* non-row, counts as a mismatch.
Mismatch_RowFirstOnly(first, ws, k) == first /\ ~IsRowWidget(ws[k + 1])
Mismatch_NonRowFirstOnly(first, ws, k) == ~first /\ IsRowWidget(ws[k + 1])

\* firstWidgetIsRow !== currentWidgetIsRow, for widgets[i] (0-based i)
Mismatch(first, ws, k) == first # IsRowWidget(ws[k + 1])

\* One iteration of the loop: throw on a mismatch, else i++.
LoopStep ==
    /\ pc = "loop"
    /\ i < Len(widgets)
    /\ IF Mismatch(firstWidgetIsRow, widgets, i)
       THEN /\ err' = "hetero"
            /\ pc' = "threw"
            /\ i' = i
       ELSE /\ err' = err
            /\ pc' = "loop"
            /\ i' = i + 1
    /\ UNCHANGED <<args, widgets, firstWidgetIsRow, rows, column, widgetJsons, body,
                   constructed, emitCalls>>

\* i < widgets.length is false: the loop ends.
LoopExit ==
    /\ pc = "loop"
    /\ ~(i < Len(widgets))
    /\ pc' = "rows"
    /\ UNCHANGED <<args, widgets, firstWidgetIsRow, i, rows, column, widgetJsons, body,
                   err, constructed, emitCalls>>

\* Variant: every widget of a non-row list wrapped into a row of its own.
MakeRows_RowPerWidget(first, ws) ==
    IF first THEN ws ELSE [k \in DOMAIN ws |-> RowWidget(<<ws[k]>>)]

\* firstWidgetIsRow ? <RowWidget[]>widgets : [new RowWidget(...widgets)]
MakeRows(first, ws) == IF first THEN ws ELSE <<RowWidget(ws)>>

BuildRows ==
    /\ pc = "rows"
    /\ rows' = MakeRows(firstWidgetIsRow, widgets)
    /\ constructed' = IF firstWidgetIsRow THEN constructed ELSE constructed + 1
    /\ pc' = "column"
    /\ UNCHANGED <<args, widgets, firstWidgetIsRow, i, column, widgetJsons, body, err,
                   emitCalls>>

\* Variants: the rows put side by side in a RowWidget; only the first row
\* passed to the ColumnWidget.
MakeColumn_AsRow(rs) == RowWidget(rs)
MakeColumn_FirstOnly(rs) == ColumnWidget(<<rs[1]>>)

\* new ColumnWidget(...rows)
MakeColumn(rs) == ColumnWidget(rs)

BuildColumn ==
    /\ pc = "column"
    /\ column' = <<MakeColumn(rows)>>
    /\ constructed' = constructed + 1
    /\ pc' = "emit"
    /\ UNCHANGED <<args, widgets, firstWidgetIsRow, i, rows, widgetJsons, body, err,
                   emitCalls>>

\* Variants: the root emitted at xOffset 1; every row emitted at (0, 0)
\* instead of stacked.
EmitRoot_OffsetOne(root) == addWidgetJson(root, <<>>, 1, 0)
EmitRoot_RowsAtOrigin(root) ==
    addKidsJson(root.kids, [k \in DOMAIN root.kids |-> [relativeX |-> 0, relativeY |-> 0]],
                <<>>, 0, 0, 1, Len(root.kids))

\* column.addWidgetJson(widgetJsons, /*xOffset:*/ 0, /*yOffset:*/ 0, region)
EmitRoot(root) == addWidgetJson(root, <<>>, 0, 0)

AddWidgetJson ==
    /\ pc = "emit"
    /\ widgetJsons' = EmitRoot(column[1])
    /\ emitCalls' = emitCalls + 1
    /\ pc' = "return"
    /\ UNCHANGED <<args, widgets, firstWidgetIsRow, i, rows, column, body, err,
                   constructed>>

\* pulumi.output({ start, end, periodOverride, widgets: widgetJsons })
MakeBody(a, jsons) ==
    [start |-> a.start, end |-> a.end, periodOverride |-> a.periodOverride,
     widgets |-> jsons]

Return ==
    /\ pc = "return"
    /\ body' = <<MakeBody(args, widgetJsons)>>
    /\ pc' = "done"
    /\ UNCHANGED <<args, widgets, firstWidgetIsRow, i, rows, column, widgetJsons, err,
                   constructed, emitCalls>>

Next ==
    \/ ReadWidgets
    \/ CheckCount
    \/ Classify
    \/ LoopStep
    \/ LoopExit
    \/ BuildRows
    \/ BuildColumn
    \/ AddWidgetJson
    \/ Return

Spec == Init /\ [][Next]_vars

-----------------------------------------------------------------------------
(* Vocabulary of the properties *)

Terminal == pc \in {"done", "threw"}

\* The list holds a RowWidget / a widget that is no RowWidget.
AnyRow(ws) == \E k \in DOMAIN ws : ws[k].kind = "Row"
AnyNonRow(ws) == \E k \in DOMAIN ws : ws[k].kind # "Row"
Mixed(ws) == AnyRow(ws) /\ AnyNonRow(ws)

RECURSIVE SumRange(_, _, _), ConcatRange(_, _, _), NodesOf(_), LeafNames(_)

\* f[lo] + ... + f[hi]
SumRange(f, lo, hi) ==
    IF lo > hi THEN 0
    ELSE IF lo = hi THEN f[lo]
    ELSE LET mid == (lo + hi) \div 2
         IN  SumRange(f, lo, mid) + SumRange(f, mid + 1, hi)

\* f[lo] \o ... \o f[hi]
ConcatRange(f, lo, hi) ==
    IF lo > hi THEN <<>>
    ELSE IF lo = hi THEN f[lo]
    ELSE LET mid == (lo + hi) \div 2
         IN  ConcatRange(f, lo, mid) \o ConcatRange(f, mid + 1, hi)

\* Every widget of a tree, the root included.
NodesOf(widget) ==
    {widget} \cup UNION { NodesOf(widget.kids[k]) : k \in DOMAIN widget.kids }

\* The leaves of a tree in depth-first, child-order traversal.
LeafNames(widget) ==
    IF widget.kind = "Leaf" THEN <<widget.name>>
    ELSE ConcatRange([k \in DOMAIN widget.kids |-> LeafNames(widget.kids[k])],
                     1, Len(widget.kids))

\* The tree is built: the states from the call of addWidgetJson on.
Built == pc \in {"emit", "return", "done"}

-----------------------------------------------------------------------------
(* The count bound *)

\* C1: the count check rejects a list exactly when it holds more than 100
\* widgets, whatever the list is made of (a mixed list of 101 widgets gets the
\* count error, not the heterogeneous-list error); no widgets at all, or an
\* absent widgets argument, gives a body with an empty widgets array and no
\* error; a list of exactly 100 widgets that is all rows or holds no row
\* succeeds.
C1_CountBound ==
    /\ (pc \notin {"start", "checkCount"}) =>
          ((err = "count") <=> (Len(ArgsWidgets(args)) > MaxWidgets))
    /\ Terminal =>
          /\ (Len(ArgsWidgets(args)) = 0) =>
                (pc = "done" /\ err = "none" /\ body[1].widgets = <<>>)
          /\ (Len(ArgsWidgets(args)) = MaxWidgets /\ ~Mixed(args.widgets)) =>
                (pc = "done" /\ err = "none" /\ Len(body) = 1)

\* A mixed list of more than 100 widgets has been refused for its count.
C1_Witness ==
    /\ pc = "threw"
    /\ err = "count"
    /\ Mixed(args.widgets)
    /\ Len(args.widgets) = MaxWidgets + 1

-----------------------------------------------------------------------------
(* The homogeneity rule *)

C3_AnyRowMeansRows ==
    (Terminal /\ Len(ArgsWidgets(args)) <= MaxWidgets) =>
        /\ pc = "done"
        /\ AnyRow(ArgsWidgets(args)) => rows = ArgsWidgets(args)
        /\ ~AnyRow(ArgsWidgets(args)) => rows = <<RowWidget(ArgsWidgets(args))>>

-----------------------------------------------------------------------------
(* Normalisation and assembly *)

\* The children of the root column, as section 4.4 describes them.
ExpectedRootKids(ws) ==
    IF Len(ws) > 0 /\ ws[1].kind = "Row" THEN ws ELSE <<RowWidget(ws)>>

\* C4: for every accepted list the root is one ColumnWidget over the list
\* itself when its first element is a RowWidget, and over one synthetic
\* RowWidget holding the whole list otherwise (the empty list included); the
\* widgets of the body are that root flattened at offset (0, 0), and start,
\* end and periodOverride are the caller's.
C4_BodyIsFlattenedRoot ==
    pc = "done" =>
        LET ws   == ArgsWidgets(args)
            root == ColumnWidget(ExpectedRootKids(ws))
        IN  /\ column = <<root>>
            /\ Len(body) = 1
            /\ body[1].widgets = addWidgetJson(root, <<>>, 0, 0)
            /\ body[1].start = args.start
            /\ body[1].end = args.end
            /\ body[1].periodOverride = args.periodOverride

\* A list of two or more non-rows has been wrapped into one synthetic row and
\* returned with an absolute time range.
C4_Witness ==
    /\ pc = "done"
    /\ ~firstWidgetIsRow
    /\ Len(widgets) >= 2
    /\ column[1].kids = <<RowWidget(widgets)>>
    /\ Len(body[1].widgets) >= 2
    /\ body[1].end # "undefined"

-----------------------------------------------------------------------------
(* RowWidget *)

MaxOf(S) == IF S = {} THEN 0 ELSE CHOOSE x \in S : \A y \in S : y <= x

\* The greatest height among the children on child k's line, up to child k.
LineMax(kids, pos, k) ==
    MaxOf({ Height(kids[m]) : m \in { j \in 1..k : pos[j].relativeY = pos[k].relativeY } })

\* The widths of the children before child k on child k's line, summed.
LineWidthBefore(kids, pos, k) ==
    SumRange([m \in 1..(k - 1) |->
                 IF pos[m].relativeY = pos[k].relativeY THEN Width(kids[m]) ELSE 0],
             1, k - 1)

\* Child k is the last one on its line.
ClosesLine(pos, k) == k = Len(pos) \/ pos[k + 1].relativeY # pos[k].relativeY

RowPacked(row) ==
    LET kids == row.kids
        pos  == RelativePositions(row)
        n    == Len(kids)
    IN  /\ Len(pos) = n
        /\ \A k \in 1..n :
              IF k = 1
              THEN pos[k] = [relativeX |-> 0, relativeY |-> 0]
              ELSE LET cursorX == pos[k - 1].relativeX + Width(kids[k - 1])
                   IN  IF cursorX + Width(kids[k]) > 24
                       THEN /\ pos[k].relativeX = 0
                            /\ pos[k].relativeY =
                                  pos[k - 1].relativeY + LineMax(kids, pos, k - 1)
                       ELSE /\ pos[k].relativeX = LineWidthBefore(kids, pos, k)
                            /\ pos[k].relativeY = pos[k - 1].relativeY
        /\ Height(row) = IF n = 0 THEN 0 ELSE pos[n].relativeY + LineMax(kids, pos, n)
        /\ Height(row) =
              SumRange([k \in 1..n |->
                           IF ClosesLine(pos, k) THEN LineMax(kids, pos, k) ELSE 0], 1, n)

\* A container at (xOffset, yOffset) emits its children in order, each at the
\* offset plus its relative position.
EmitsKidsAt(widget, xOffset, yOffset) ==
    LET pos == RelativePositions(widget)
    IN  addWidgetJson(widget, <<>>, xOffset, yOffset) =
            ConcatRange([k \in DOMAIN widget.kids |->
                            addWidgetJson(widget.kids[k], <<>>,
                                          xOffset + pos[k].relativeX,
                                          yOffset + pos[k].relativeY)],
                        1, Len(widget.kids))

\* C5: every RowWidget of the tree places its children in order; a child
\* wraps exactly when the column cursor plus its width is greater than 24,
\* and is then put at x = xOffset, below the greatest height of the line just
\* closed; otherwise it is put after the widths of the earlier children of
\* its line. The row's height is the sum of the line maxima, which is cursorY
\* + lineHeight after the last child. A list of leaves that is no row list is
\* laid out in the body by this rule.
C5_RowPacking ==
    /\ Built =>
          \A node \in NodesOf(column[1]) :
              node.kind = "Row" =>
                  /\ RowPacked(node)
                  /\ EmitsKidsAt(node, 0, 0)
                  /\ EmitsKidsAt(node, 6, 3)
    /\ (pc = "done" /\ ~firstWidgetIsRow
          /\ \A k \in DOMAIN widgets : widgets[k].kind = "Leaf") =>
          LET pos == RelativePositions(RowWidget(widgets))
          IN  \A k \in DOMAIN widgets :
                  /\ body[1].widgets[k].x = pos[k].relativeX
                  /\ body[1].widgets[k].y = pos[k].relativeY

\* Three leaves in one row: the second ends exactly at column 24 and stays on
\* the first line, the third wraps to x = 0 on the next line.
C5_Witness ==
    /\ pc = "done"
    /\ ~firstWidgetIsRow
    /\ Len(widgets) = 3
    /\ \A k \in 1..3 : widgets[k].kind = "Leaf"
    /\ body[1].widgets[2].x + body[1].widgets[2].width = 24
    /\ body[1].widgets[2].y = 0
    /\ body[1].widgets[3].x = 0
    /\ body[1].widgets[3].y = 6

-----------------------------------------------------------------------------
(* ColumnWidget *)

HeightsOf(kids) == [k \in DOMAIN kids |-> Height(kids[k])]

ColumnStacked(col) ==
    LET kids == col.kids
        pos  == RelativePositions(col)
        n    == Len(kids)
    IN  /\ Len(pos) = n
        /\ \A k \in 1..n :
              /\ pos[k].relativeX = 0
              /\ pos[k].relativeY = SumRange(HeightsOf(kids), 1, k - 1)
        /\ Height(col) = SumRange(HeightsOf(kids), 1, n)
        /\ Width(col) = MaxOf({ Width(kids[k]) : k \in 1..n })

\* C6: every ColumnWidget of the tree puts its k-th child at x = xOffset and
\* at y = yOffset + the heights of the children before it, never wrapping;
\* its height is the sum of its children's heights and its width the greatest
\* of their widths. In the body of a list of RowWidgets, the records of row k
\* are row k flattened at y = the total height of rows 1..k-1.
C6_ColumnStacking ==
    /\ Built =>
          \A node \in NodesOf(column[1]) :
              node.kind = "Column" =>
                  /\ ColumnStacked(node)
                  /\ EmitsKidsAt(node, 0, 0)
                  /\ EmitsKidsAt(node, 6, 3)
    /\ (pc = "done" /\ AnyRow(widgets)) =>
          body[1].widgets =
              ConcatRange([k \in DOMAIN widgets |->
                              addWidgetJson(widgets[k], <<>>, 0,
                                            SumRange(HeightsOf(widgets), 1, k - 1))],
                          1, Len(widgets))

\* Two or more rows, the first of them wrapped into two lines of height 4: the
\* first record of the second row lies at y = 8.
C6_Witness ==
    /\ pc = "done"
    /\ firstWidgetIsRow
    /\ Len(widgets) >= 2
    /\ widgets[1].kids = <<LeafA, LeafA, LeafA>>
    /\ Len(body[1].widgets) >= 4
    /\ body[1].widgets[4].y = 8
    /\ body[1].widgets[4].x = 0

-----------------------------------------------------------------------------
(* Flattening *)

\* C7: the widgets of the body hold exactly one record per leaf reachable
\* from the supplied list, none for a row or a column, in depth-first,
\* child-order traversal order: all the leaves of an earlier element of the
\* list before all the leaves of a later one, wrapped or not.
C7_OneRecordPerLeafInOrder ==
    pc = "done" =>
        LET ws    == ArgsWidgets(args)
            names == ConcatRange([k \in DOMAIN ws |-> LeafNames(ws[k])], 1, Len(ws))
        IN  /\ Len(body[1].widgets) = Len(names)
            /\ \A k \in DOMAIN names :
                  /\ body[1].widgets[k].leaf = names[k]
                  /\ body[1].widgets[k].leaf # ""
            /\ names = LeafNames(column[1])

\* A row that nests a row and a row that wraps, three leaves each: six records.
C7_Witness ==
    /\ pc = "done"
    /\ firstWidgetIsRow
    /\ Len(widgets) = 2
    /\ LeafNames(widgets[1]) = <<"C", "C", "B">>
    /\ LeafNames(widgets[2]) = <<"A", "A", "A">>
    /\ Len(body[1].widgets) = 6

-----------------------------------------------------------------------------
(* Validation before layout *)

\* Something of the layout exists: a container was constructed, addWidgetJson
\* was called, a record or a body was produced.
LayoutStarted ==
    \/ constructed > 0
    \/ emitCalls > 0
    \/ rows # <<>>
    \/ column # <<>>
    \/ widgetJsons # <<>>
    \/ body # <<>>

\* C8: validation comes before layout. When the count check or the
\* homogeneity check fails, no RowWidget or ColumnWidget has been constructed,
\* addWidgetJson has not been called, and neither records nor a body exist;
\* whatever of the layout exists, exists for a list that passed both checks;
\* and from the construction of the rows on, no error is raised.
C8_ValidationBeforeLayout ==
    /\ err # "none" => (pc = "threw" /\ ~LayoutStarted)
    /\ pc = "threw" => err # "none"
    /\ LayoutStarted =>
          /\ Len(widgets) <= MaxWidgets
          /\ ~Mixed(widgets)
          /\ err = "none"
    /\ pc \in {"rows", "column", "emit", "return", "done"} => err = "none"
    /\ (Terminal /\ (Len(ArgsWidgets(args)) > MaxWidgets \/ Mixed(ArgsWidgets(args)))) =>
          (pc = "threw" /\ body = <<>>)

\* The homogeneity check has failed at the third widget or later, and nothing
\* of the layout exists.
C8_Witness ==
    /\ pc = "threw"
    /\ err = "hetero"
    /\ i >= 2
    /\ constructed = 0
    /\ emitCalls = 0
    /\ body = <<>>

-----------------------------------------------------------------------------
(* The grid *)

LeavesFit(root) ==
    \A node \in NodesOf(root) : node.kind = "Leaf" => node.w \in 1..GridColumns

\* C9: with every leaf 1..24 wide, every row and column of the tree has a
\* derived width in 0..24 that is at least the column extent its own records
\* occupy, and every record of the body lies inside the grid: x >= 0 and
\* x + width <= 24.
C9_InsideGrid ==
    /\ (Built /\ LeavesFit(column[1])) =>
          \A node \in NodesOf(column[1]) :
              node.kind # "Leaf" =>
                  /\ Width(node) \in 0..24
                  /\ LET recs == addWidgetJson(node, <<>>, 0, 0)
                     IN  \A k \in DOMAIN recs : recs[k].x + recs[k].width <= Width(node)
    /\ (pc = "done" /\ LeavesFit(column[1])) =>
          \A k \in DOMAIN body[1].widgets :
              /\ body[1].widgets[k].x >= 0
              /\ body[1].widgets[k].x + body[1].widgets[k].width <= 24

\* A container nested in a row at a non-zero column cursor, one of whose
\* records ends exactly at column 24.
C9_Witness ==
    /\ pc = "done"
    /\ \E node \in NodesOf(column[1]) :
          /\ node.kind = "Row"
          /\ \E k \in DOMAIN node.kids :
                /\ node.kids[k].kind # "Leaf"
                /\ RelativePositions(node)[k].relativeX > 0
    /\ \E k \in DOMAIN body[1].widgets :
          /\ body[1].widgets[k].x > 0
          /\ body[1].widgets[k].x + body[1].widgets[k].width = 24

Overlap(a, b) ==
    /\ a.x < b.x + b.width
    /\ b.x < a.x + a.width
    /\ a.y < b.y + b.height
    /\ b.y < a.y + a.height

LeavesSized(root) ==
    \A node \in NodesOf(root) :
        node.kind = "Leaf" => (node.w \in 1..GridColumns /\ node.h >= 1)

\* C10: in the body of an accepted list whose leaves are 1..24 wide and at
\* least 1 high, no two distinct records share a grid cell.
C10_NoOverlap ==
    (pc = "done" /\ LeavesSized(column[1])) =>
        \A k \in DOMAIN body[1].widgets :
            \A m \in DOMAIN body[1].widgets :
                k < m => ~Overlap(body[1].widgets[k], body[1].widgets[m])

\* Several rows, the first wrapped into two lines, and records on both lines
\* and in the next row.
C10_Witness ==
    /\ pc = "done"
    /\ firstWidgetIsRow
    /\ Len(widgets) >= 2
    /\ Len(body[1].widgets) >= 5
    /\ \E k \in DOMAIN body[1].widgets :
          /\ k + 1 \in DOMAIN body[1].widgets
          /\ body[1].widgets[k].y = 0
          /\ body[1].widgets[k + 1].y > 0
          /\ body[1].widgets[k + 1].y < Height(widgets[1])

====
